---- MODULE Spec2Model ----
(***************************************************************************)
(* Model of the loclook Cloudflare Worker (src/index.js): the header       *)
(* extractor, the two quality scorers and the enhancement flow of          *)
(* /location-enhanced with its outbound call to ipapi.co.                  *)
(*                                                                         *)
(* JavaScript values are tagged records, strings are sequences of          *)
(* one-character strings so that split, trim, includes and parseFloat are  *)
(* computed as the runtime computes them.  Numbers are integers: the       *)
(* alphabet of the header values has no '.', 'e' or 'I'.                   *)
(***************************************************************************)
EXTENDS Integers, Sequences, FiniteSets, TLC

VARIABLES pc, request, locationData, fallbackOutcome, fallbackData, calls,
          response, probe, resolved, client

vars == <<pc, request, locationData, fallbackOutcome, fallbackData, calls,
          response, probe, resolved, client>>

(***************************************************************************)
(* JavaScript values                                                       *)
(***************************************************************************)
Null == [t |-> "null"]

Undef == [t |-> "undefined"]

NaN == [t |-> "NaN"]

Num(n) == [t |-> "number", n |-> n]

Str(s) == [t |-> "string", s |-> s]

Bool(b) == [t |-> "boolean", b |-> b]

Obj(o) == [t |-> "object", o |-> o]

\* ToBoolean: the test made by !x, x || y and if (x)
Truthy(v) ==
  CASE v.t = "string" -> Len(v.s) > 0
    [] v.t = "number" -> v.n # 0
    [] v.t = "boolean" -> v.b
    [] v.t = "object" -> TRUE
    [] OTHER -> FALSE

\* a || b
Or(a, b) == IF Truthy(a) THEN a ELSE b

\* value.key on a value that is neither null nor undefined
GetProp(v, key) ==
  IF v.t = "object" /\ key \in DOMAIN v.o THEN v.o[key] ELSE Undef

\* obj.key = value
SetProp(obj, key, value) ==
  [k \in DOMAIN obj \cup {key} |-> IF k = key THEN value ELSE obj[k]]

(***************************************************************************)
(* Strings                                                                 *)
(***************************************************************************)
Digit == {"0", "1", "2", "3", "4", "5", "6", "7", "8", "9"}

DigitVal(c) ==
  CASE c = "0" -> 0 [] c = "1" -> 1 [] c = "2" -> 2 [] c = "3" -> 3
    [] c = "4" -> 4 [] c = "5" -> 5 [] c = "6" -> 6 [] c = "7" -> 7
    [] c = "8" -> 8 [] c = "9" -> 9

\* s.includes(c)
Includes(s, c) == \E i \in 1..Len(s) : s[i] = c

\* index of the first occurrence of c in s at or after i, Len(s)+1 if none
RECURSIVE IndexFrom(_, _, _)
IndexFrom(s, c, i) ==
  IF i > Len(s) \/ s[i] = c THEN i ELSE IndexFrom(s, c, i + 1)

\* s.split(c)
RECURSIVE Split(_, _)
Split(s, c) ==
  LET j == IndexFrom(s, c, 1)
  IN  IF j > Len(s) THEN <<s>>
      ELSE <<SubSeq(s, 1, j - 1)>> \o Split(SubSeq(s, j + 1, Len(s)), c)

RECURSIVE TrimStart(_)
TrimStart(s) ==
  IF Len(s) > 0 /\ s[1] = " " THEN TrimStart(Tail(s)) ELSE s

RECURSIVE TrimEnd(_)
TrimEnd(s) ==
  IF Len(s) > 0 /\ s[Len(s)] = " " THEN TrimEnd(SubSeq(s, 1, Len(s) - 1)) ELSE s

\* s.trim()
Trim(s) == TrimEnd(TrimStart(s))

RECURSIVE DigitsValue(_, _, _)
DigitsValue(s, i, acc) ==
  IF i <= Len(s) /\ s[i] \in Digit
  THEN DigitsValue(s, i + 1, 10 * acc + DigitVal(s[i]))
  ELSE acc

\* the longest numeric prefix of s after leading blanks and an optional sign
NumericPrefix(s) ==
  LET u == TrimStart(s)
      signed == Len(u) > 0 /\ u[1] \in {"-", "+"}
      d == IF signed THEN 2 ELSE 1
  IN  IF d > Len(u) \/ u[d] \notin Digit THEN NaN
      ELSE IF signed /\ u[1] = "-" THEN Num(0 - DigitsValue(u, d, 0))
      ELSE Num(DigitsValue(u, d, 0))

\* parseFloat(v) of a string value
parseFloat(v) == NumericPrefix(v.s)

\* parseInt(v, 10) of a string value
parseInt(v) == NumericPrefix(v.s)

(***************************************************************************)
(* Request headers: a function from the names of the headers that are      *)
(* present to their values                                                 *)
(***************************************************************************)
\* headers.get(name)
Get(headers, name) ==
  IF name \in DOMAIN headers THEN Str(headers[name]) ELSE Null

(***************************************************************************)
(* Quality scorers                                                         *)
(***************************************************************************)
\* the percentage cut off instead of rounded
MathTruncPercent(num, den) == (100 * num) \div den

\* Math.round(num / den * 100) for num >= 0, den > 0
MathRoundPercent(num, den) == (200 * num + den) \div (2 * den)

fields ==
  {"CF-IPCountry", "CF-Region", "CF-IPCity", "CF-IPLatitude",
   "CF-IPLongitude", "CF-Timezone", "CF-IPPostalCode"}

\* the ladder without its last rung
QualityLevelNoElse(percentage) ==
  IF percentage >= 80 THEN "excellent"
  ELSE IF percentage >= 60 THEN "good"
  ELSE IF percentage >= 40 THEN "fair"
  ELSE IF percentage >= 20 THEN "limited"
  ELSE "unknown"

QualityLevel(percentage) ==
  IF percentage >= 80 THEN "excellent"
  ELSE IF percentage >= 60 THEN "good"
  ELSE IF percentage >= 40 THEN "fair"
  ELSE IF percentage >= 20 THEN "limited"
  ELSE "minimal"

calculateDataQuality(headers) ==
  LET availableFields == Cardinality({f \in fields : Truthy(Get(headers, f))})
      totalFields == Cardinality(fields)
      percentage == MathRoundPercent(availableFields, totalFields)
  IN  [score |-> percentage,
       level |-> QualityLevel(percentage),
       availableFields |-> availableFields,
       totalFields |-> totalFields]

mainFields ==
  {"country", "region", "city", "latitude", "longitude", "timezone",
   "postalCode"}

\* the ladder with strict comparisons
EnhancedQualityLevelStrict(percentage) ==
  IF percentage > 80 THEN "excellent"
  ELSE IF percentage > 60 THEN "good"
  ELSE IF percentage > 40 THEN "fair"
  ELSE IF percentage > 20 THEN "limited"
  ELSE "minimal"

EnhancedQualityLevel(percentage) ==
  IF percentage >= 80 THEN "excellent"
  ELSE IF percentage >= 60 THEN "good"
  ELSE IF percentage >= 40 THEN "fair"
  ELSE IF percentage >= 20 THEN "limited"
  ELSE "minimal"

\* locationData[field] !== null, also true of a field that reads undefined
NotNull(v) == v.t # "null"

calculateEnhancedDataQuality(ld) ==
  LET availableFields ==
        Cardinality({f \in mainFields : NotNull(GetProp(Obj(ld), f))})
      percentage == MathRoundPercent(availableFields, Cardinality(mainFields))
  IN  [score |-> percentage,
       level |-> EnhancedQualityLevel(percentage),
       availableFields |-> availableFields,
       totalFields |-> Cardinality(mainFields)]

(***************************************************************************)
(* Header extractor                                                        *)
(***************************************************************************)
unknown == <<"u", "n", "k", "n", "o", "w", "n">>

RECURSIVE Decimal(_)
Decimal(n) ==
  IF n < 10 THEN <<CHOOSE c \in Digit : DigitVal(c) = n>>
  ELSE Decimal(n \div 10) \o <<CHOOSE c \in Digit : DigitVal(c) = n % 10>>

\* new Date().toISOString() at the instant now: a text that names the instant
toISOString(now) == <<"T">> \o Decimal(now)

\* the first entry taken as it stands, blanks included
ForwardedFirstNoTrim(headers) ==
  LET xff == Get(headers, "X-Forwarded-For")
  IN  IF xff.t = "null" THEN Undef ELSE Str(Split(xff.s, ",")[1])

\* headers.get('X-Forwarded-For')?.split(',')[0]?.trim()
ForwardedFirst(headers) ==
  LET xff == Get(headers, "X-Forwarded-For")
  IN  IF xff.t = "null" THEN Undef ELSE Str(Trim(Split(xff.s, ",")[1]))

\* headers.get('CF-Ray')?.split('-')[1]
RaySegment(headers) ==
  LET ray == Get(headers, "CF-Ray")
  IN  IF ray.t = "null" THEN Undef
      ELSE IF Len(Split(ray.s, "-")) >= 2 THEN Str(Split(ray.s, "-")[2])
      ELSE Undef

ResolveIp(headers) ==
  Or(Or(Get(headers, "CF-Connecting-IP"), ForwardedFirst(headers)), Str(unknown))

\* if (x) x = parseFloat(x)
ParseFloatIfSet(v) == IF Truthy(v) THEN parseFloat(v) ELSE v

\* if (x) x = parseInt(x, 10)
ParseIntIfSet(v) == IF Truthy(v) THEN parseInt(v) ELSE v

\* members of dataQuality are never undefined or NaN and are held untagged
extractLocationData(headers, now) ==
  LET ip == ResolveIp(headers)
  IN  [ip |-> ip,
       country |-> Or(Get(headers, "CF-IPCountry"), Null),
       region |-> Or(Get(headers, "CF-Region"), Null),
       regionCode |-> Or(Get(headers, "CF-Region-Code"), Null),
       city |-> Or(Get(headers, "CF-IPCity"), Null),
       postalCode |-> Or(Get(headers, "CF-postal-code"), Null),
       timezone |-> Or(Get(headers, "CF-Timezone"), Null),
       latitude |->
         ParseFloatIfSet(Or(Get(headers, "CF-IPLatitude"), Null)),
       longitude |->
         ParseFloatIfSet(Or(Get(headers, "CF-IPLongitude"), Null)),
       metroCode |->
         ParseIntIfSet(Or(Get(headers, "CF-MetroCode"), Null)),
       continent |-> Or(Get(headers, "CF-IPContinent"), Null),
       asn |-> ParseIntIfSet(Or(Get(headers, "CF-ASN"), Null)),
       colo |-> Or(RaySegment(headers), Null),
       timestamp |-> Str(toISOString(now)),
       userAgent |-> Or(Get(headers, "User-Agent"), Null),
       acceptLanguage |-> Or(Get(headers, "Accept-Language"), Null),
       requestId |-> Or(Get(headers, "CF-Ray"), Null),
       visitorId |-> Or(Get(headers, "CF-Visitor"), Null),
       ipType |-> IF Includes(ip.s, ":") THEN Str(<<"I", "P", "v", "6">>)
                  ELSE Str(<<"I", "P", "v", "4">>),
       dataQuality |-> Obj(calculateDataQuality(headers))]

(***************************************************************************)
(* Responses                                                               *)
(***************************************************************************)
getCORSHeaders ==
  ("Access-Control-Allow-Origin" :> "*") @@
  ("Access-Control-Allow-Methods" :> "GET, POST, OPTIONS") @@
  ("Access-Control-Allow-Headers" :> "Content-Type, Authorization") @@
  ("Access-Control-Max-Age" :> "86400")

\* the headers without the spread of getCORSHeaders()
JsonHeadersOnly == ("Content-Type" :> "application/json")

JsonHeaders == ("Content-Type" :> "application/json") @@ getCORSHeaders

\* JSON.stringify(record): a key whose value is undefined is left out and NaN
\* is written as null
Stringify(record) ==
  [k \in {key \in DOMAIN record : record[key].t # "undefined"} |->
     IF record[k].t = "NaN" THEN Null ELSE record[k]]

handleCORS == [status |-> 200, body |-> Null, headers |-> getCORSHeaders]

NotFoundText == <<"N", "o", "t", " ", "F", "o", "u", "n", "d">>

\* the response built without its status option, which then is 200
NotFoundResponseNoStatus ==
  [status |-> 200, body |-> Str(NotFoundText), headers |-> getCORSHeaders]

NotFoundResponse ==
  [status |-> 404, body |-> Str(NotFoundText), headers |-> getCORSHeaders]

HealthResponse(now) ==
  [status |-> 200,
   body |-> Obj([status |-> Str(<<"o", "k">>), timestamp |-> Str(toISOString(now))]),
   headers |-> JsonHeaders]

LocationFailedText == <<"F", "a", "i", "l", "e", "d", " ", "t", "o", " ", "p", "r", "o", "c", "e", "s", "s", " ", "l", "o", "c", "a", "t", "i", "o", "n", " ", "r", "e", "q", "u", "e", "s", "t">>

\* the catch block of handleLocationRequest
LocationErrorResponse(message) ==
  [status |-> 500,
   body |-> Obj([error |-> Str(LocationFailedText), message |-> Str(message)]),
   headers |-> JsonHeaders]

handleLocationRequest(headers, now) ==
  [status |-> 200,
   body |-> Obj(Stringify(extractLocationData(headers, now))),
   headers |-> JsonHeaders]

(***************************************************************************)
(* Enhancement: the inner try block of handleEnhancedLocationRequest       *)
(***************************************************************************)
ipapi == <<"i", "p", "a", "p", "i", ".", "c", "o">>

EnhancedFailedText == <<"F", "a", "i", "l", "e", "d", " ", "t", "o", " ", "p", "r", "o", "c", "e", "s", "s", " ", "e", "n", "h", "a", "n", "c", "e", "d", " ", "l", "o", "c", "a", "t", "i", "o", "n", " ", "r", "e", "q", "u", "e", "s", "t">>

\* the message of the TypeError raised by reading a property of null
NullReadMessage == <<"C", "a", "n", "n", "o", "t", " ", "r", "e", "a", "d", " ", "p", "r", "o", "p", "e", "r", "t", "i", "e", "s", " ", "o", "f", " ", "n", "u", "l", "l", " ", "(", "r", "e", "a", "d", "i", "n", "g", " ", "'", "c", "i", "t", "y", "'", ")">>

\* the escalation test without its second disjunct
NeedsEnhancementMinimalOnly(ld) == ld.dataQuality.o.level = "minimal"

\* the escalation test on the baseline record
NeedsEnhancement(ld) ==
  \/ ld.dataQuality.o.level = "minimal"
  \/ ld.dataQuality.o.level = "limited"

\* the inner block ran to its end
Completed(ld) == [escaped |-> FALSE, ld |-> ld, message |-> <<>>]

\* the inner block without its catch: the error reaches the outer catch
InnerCatchRethrow(ld, message) ==
  [escaped |-> TRUE, ld |-> ld, message |-> message]

\* catch (fallbackError) { locationData.fallbackError = fallbackError.message }
InnerCatch(ld, message) ==
  [escaped |-> FALSE,
   ld |-> SetProp(ld, "fallbackError", Str(message)),
   message |-> message]

FallbackRecord(fd) ==
  Obj([source |-> Str(ipapi),
       city |-> Or(GetProp(fd, "city"), Null),
       region |-> Or(GetProp(fd, "region"), Null),
       latitude |-> Or(GetProp(fd, "latitude"), Null),
       longitude |-> Or(GetProp(fd, "longitude"), Null),
       timezone |-> Or(GetProp(fd, "timezone"), Null),
       postalCode |-> Or(GetProp(fd, "postal"), Null),
       org |-> Or(GetProp(fd, "org"), Null)])

\* if (!locationData.key) locationData.key = value
FillIfFalsy(ld, key, value) ==
  IF ~Truthy(ld[key]) THEN SetProp(ld, key, value) ELSE ld

MergeMainFields(ld, fd) ==
  LET l1 == FillIfFalsy(ld, "city", GetProp(fd, "city"))
      l2 == FillIfFalsy(l1, "region", GetProp(fd, "region"))
      l3 == FillIfFalsy(l2, "latitude", GetProp(fd, "latitude"))
      l4 == FillIfFalsy(l3, "longitude", GetProp(fd, "longitude"))
      l5 == FillIfFalsy(l4, "timezone", GetProp(fd, "timezone"))
  IN  FillIfFalsy(l5, "postalCode", GetProp(fd, "postal"))

\* the new assessment attached without the enhanced flag
RescoreNoFlag(ld) ==
  SetProp(ld, "dataQuality",
          Obj(SetProp(ld.dataQuality.o, "enhancedScore",
                      calculateEnhancedDataQuality(ld))))

Rescore(ld) ==
  LET dq == SetProp(ld.dataQuality.o, "enhanced", TRUE)
  IN  SetProp(ld, "dataQuality",
              Obj(SetProp(dq, "enhancedScore",
                          calculateEnhancedDataQuality(ld))))

\* locationData.fallback assigned before the fields of the body are read
MergeFallbackAssignFirst(ld, fd) ==
  IF fd.t = "null"
  THEN InnerCatch(SetProp(ld, "fallback", Obj([source |-> Str(ipapi)])),
                  NullReadMessage)
  ELSE Completed(Rescore(MergeMainFields(SetProp(ld, "fallback", FallbackRecord(fd)), fd)))

\* the statements after the body was parsed; reading a property of a null
\* body throws before locationData.fallback is assigned
MergeFallback(ld, fd) ==
  IF fd.t = "null" THEN InnerCatch(ld, NullReadMessage)
  ELSE Completed(Rescore(MergeMainFields(SetProp(ld, "fallback", FallbackRecord(fd)), fd)))

\* the return statements of handleEnhancedLocationRequest
EnhancedResponse(result) ==
  IF result.escaped
  THEN [status |-> 500,
        body |-> Obj([error |-> Str(EnhancedFailedText),
                      message |-> Str(result.message)]),
        headers |-> JsonHeaders]
  ELSE [status |-> 200,
        body |-> Obj(Stringify(result.ld)),
        headers |-> JsonHeaders]

(***************************************************************************)
(* Inputs                                                                  *)
(***************************************************************************)
\* number of distinct instants the clock can show when a request arrives
MaxInstant == 1

\* largest score handed to the level ladders on their own
MaxScore == 100

Instants == 1..MaxInstant

\* marks a header that the request does not carry
Absent == <<"(absent)">>

Present(tot) == [n \in {m \in DOMAIN tot : tot[m] # Absent} |-> tot[n]]

GeoHeaders ==
  {Present(("CF-IPCountry" :> country) @@ ("CF-Region" :> region) @@
           ("CF-IPCity" :> city) @@ ("CF-IPLatitude" :> latitude) @@
           ("CF-IPLongitude" :> longitude) @@ ("CF-Timezone" :> timezone) @@
           ("CF-IPPostalCode" :> ipPostal) @@ ("CF-postal-code" :> postal)) :
     country \in {Absent, <<"F", "R">>},
     region \in {Absent, <<"I", "D", "F">>},
     city \in {Absent, <<>>, <<"L", "y", "o", "n">>},
     latitude \in {Absent, <<"0">>, <<"n", "/", "a">>, <<"4", "8">>},
     longitude \in {Absent, <<"-", "2">>},
     timezone \in {Absent, <<"C", "E", "T">>},
     ipPostal \in {Absent, <<"7", "5">>},
     postal \in {Absent, <<"7", "5">>}}

IpHeaders ==
  {Present(("CF-Connecting-IP" :> cip) @@ ("X-Forwarded-For" :> xff)) :
     cip \in {Absent, <<"1", ".", "2">>, <<":", ":", "1">>},
     xff \in {Absent, <<" ", "7", ".", "8", " ", ",", "9">>}}

NoHeaders == [n \in {} |-> <<>>]

AuxHeaders ==
  {NoHeaders,
   ("CF-Region-Code" :> <<"7", "5">>) @@ ("CF-MetroCode" :> <<"5", "0", "1">>) @@
   ("CF-IPContinent" :> <<"E", "U">>) @@ ("CF-ASN" :> <<"0">>) @@
   ("CF-Ray" :> <<"a", "b", "-", "C", "D", "G">>) @@
   ("User-Agent" :> <<"c", "u", "r", "l">>) @@
   ("Accept-Language" :> <<"f", "r">>) @@ ("CF-Visitor" :> <<"{", "}">>)}

\* the other headers come with a connecting address or not at all
RestHeaders ==
  IpHeaders \cup
  {("CF-Connecting-IP" :> <<"1", ".", "2">>) @@ a : a \in AuxHeaders \ {NoHeaders}}

HeaderSets == {g @@ r : g \in GeoHeaders, r \in RestHeaders}

Methods == {"GET", "POST", "OPTIONS"}

Paths == {"/", "/location", "/location-enhanced", "/health", "/nowhere"}

\* messages of the errors the outbound fetch rejects with
NetworkErrors == {<<"f", "e", "t", "c", "h", " ", "f", "a", "i", "l", "e", "d">>}

\* messages of the errors that reading the body as JSON rejects with
ParseErrors == {<<"U", "n", "e", "x", "p", "e", "c", "t", "e", "d", " ", "t", "o", "k", "e", "n", " ", "<">>}

\* the keys of a parsed body: JSON has no undefined, the key is left out
Defined(tot) == [n \in {m \in DOMAIN tot : tot[m].t # "undefined"} |-> tot[n]]

\* a field of the body: left out, null, falsy or truthy
BodyObjects ==
  {Obj(Defined(("city" :> city) @@ ("region" :> region) @@
               ("latitude" :> latitude) @@ ("longitude" :> longitude) @@
               ("timezone" :> timezone) @@ ("postal" :> postal) @@
               ("org" :> org))) :
     city \in {Undef, Null, Str(<<>>), Str(<<"P", "a", "r", "i", "s">>)},
     region \in {Undef, Str(<<"I", "D", "F">>)},
     latitude \in {Undef, Null, Num(0), Num(49)},
     longitude \in {Undef, Num(2)},
     timezone \in {Undef, Str(<<"C", "E", "T">>)},
     postal \in {Undef, Str(<<"6", "9">>)},
     org \in {Undef, Str(<<"I", "S", "P">>)}}

\* bodies that name their fields and hold null for all, or all but one
NullBodies ==
  {Obj(("city" :> Null) @@ ("region" :> region) @@ ("latitude" :> Null) @@
       ("longitude" :> Null) @@ ("timezone" :> Null) @@ ("postal" :> Null) @@
       ("org" :> Null)) :
     region \in {Null, Str(<<"I", "D", "F">>)}}

\* the JSON values a 2xx body can parse to: null, a primitive, an object
Bodies == {Null, Num(7)} \cup BodyObjects \cup NullBodies

(***************************************************************************)
(* State                                                                   *)
(***************************************************************************)
NoRecord == [k \in {} |-> Null]

NoRequest == [method |-> "", path |-> "", headers |-> NoHeaders, now |-> 0]

NoResponse == [status |-> 0, body |-> Null, headers |-> NoHeaders]

NoProbe == [scorer |-> "none", score |-> 0, level |-> "unknown"]

\* no header set was given to the extractor on its own yet
NoResolved == [headers |-> NoHeaders, ip |-> Str(<<>>), ipType |-> Str(<<>>)]

\* no cache entry under cacheKey
NoEntry == [present |-> FALSE, location |-> Null, timestamp |-> 0]

\* what is known of a call of getLocation: its option, the entry and the
\* instant it found, the entry its lookup left, whether it sent a request,
\* how it ended, what it returned and whether it wrote the cache
NoCall ==
  [fresh |-> FALSE, entry |-> NoEntry, at |-> 0, kept |-> NoEntry,
   requested |-> FALSE, outcome |-> "none", returned |-> Undef,
   wrote |-> FALSE]

\* new LocationClient(baseUrl, {cacheTTL: CacheTTL}) at instant 0, in a
\* runtime with or without localStorage
NewClient(hasStorage) ==
  [cache |-> TRUE, hasStorage |-> hasStorage, storage |-> NoEntry, now |-> 0,
   stage |-> "idle", call |-> NoCall]

Init ==
  /\ pc = "idle"
  /\ request = NoRequest
  /\ locationData = NoRecord
  /\ fallbackOutcome = "none"
  /\ fallbackData = Undef
  /\ calls = 0
  /\ response = NoResponse
  /\ probe = NoProbe
  /\ resolved = NoResolved
  /\ client = NewClient(TRUE)

\* a request arrives at an invocation of the worker
Accept(method, path, headers, now) ==
  /\ request' = [method |-> method, path |-> path, headers |-> headers, now |-> now]
  /\ fallbackOutcome' = "none"
  /\ fallbackData' = Undef
  /\ UNCHANGED <<probe, resolved, client>>

Reply(resp) ==
  /\ pc' = "done"
  /\ response' = resp

(***************************************************************************)
(* fetch(request, env, ctx)                                                *)
(***************************************************************************)
HandleOptions ==
  /\ pc = "idle"
  /\ \E path \in Paths, headers \in HeaderSets, now \in Instants :
       /\ Accept("OPTIONS", path, headers, now)
       /\ Reply(handleCORS)
       /\ locationData' = NoRecord
       /\ calls' = 0

HandleLocation ==
  /\ pc = "idle"
  /\ \E method \in Methods \ {"OPTIONS"}, path \in {"/location", "/"},
        headers \in HeaderSets, now \in Instants :
       /\ Accept(method, path, headers, now)
       /\ Reply(handleLocationRequest(headers, now))
       /\ locationData' = extractLocationData(headers, now)
       /\ calls' = 0

HandleHealth ==
  /\ pc = "idle"
  /\ \E method \in Methods \ {"OPTIONS"}, headers \in HeaderSets,
        now \in Instants :
       /\ Accept(method, "/health", headers, now)
       /\ Reply(HealthResponse(now))
       /\ locationData' = NoRecord
       /\ calls' = 0

HandleNotFound ==
  /\ pc = "idle"
  /\ \E method \in Methods \ {"OPTIONS"},
        path \in Paths \ {"/location", "/", "/location-enhanced", "/health"},
        headers \in HeaderSets, now \in Instants :
       /\ Accept(method, path, headers, now)
       /\ Reply(NotFoundResponse)
       /\ locationData' = NoRecord
       /\ calls' = 0

\* handleEnhancedLocationRequest up to its await, or to its end when the
\* baseline needs no enhancement
HandleEnhanced ==
  /\ pc = "idle"
  /\ \E headers \in HeaderSets, now \in Instants :
       LET ld == extractLocationData(headers, now)
       IN  /\ Accept("GET", "/location-enhanced", headers, now)
           /\ locationData' = ld
           /\ IF NeedsEnhancement(ld)
              THEN /\ pc' = "fetching"
                   /\ calls' = 1
                   /\ response' = NoResponse
              ELSE /\ Reply(EnhancedResponse(Completed(ld)))
                   /\ calls' = 0

\* the rest of the handler once the inner block ended with result
Finish(outcome, fd, result) ==
  /\ fallbackOutcome' = outcome
  /\ fallbackData' = fd
  /\ locationData' = result.ld
  /\ Reply(EnhancedResponse(result))
  /\ UNCHANGED <<request, calls, probe, resolved, client>>

\* a second attempt after the first one was rejected
FetchRejectsRetry ==
  /\ pc = "fetching"
  /\ calls < 3
  /\ calls' = calls + 1
  /\ UNCHANGED <<pc, request, locationData, fallbackOutcome, fallbackData,
                 response, probe, resolved, client>>

\* await fetch(...) rejects
FetchRejects ==
  /\ pc = "fetching"
  /\ \E message \in NetworkErrors :
       Finish("rejected", Undef, InnerCatch(locationData, message))

\* await fetch(...) resolves with a response that is not ok
FetchNotOk ==
  /\ pc = "fetching"
  /\ Finish("notOk", Undef, Completed(locationData))

\* await fetch(...) resolves with an ok response: the body is read next
FetchOk ==
  /\ pc = "fetching"
  /\ pc' = "parsing"
  /\ UNCHANGED <<request, locationData, fallbackOutcome, fallbackData, calls,
                 response, probe, resolved, client>>

\* await fallbackResponse.json() rejects
JsonRejects ==
  /\ pc = "parsing"
  /\ \E message \in ParseErrors :
       Finish("unparseable", Undef, InnerCatch(locationData, message))

\* await fallbackResponse.json() resolves
JsonResolves ==
  /\ pc = "parsing"
  /\ \E fd \in Bodies :
       Finish("parsed", fd, MergeFallback(locationData, fd))

Next ==
  \/ HandleOptions
  \/ HandleLocation
  \/ HandleHealth
  \/ HandleNotFound
  \/ HandleEnhanced
  \/ FetchRejects
  \/ FetchNotOk
  \/ FetchOk
  \/ JsonRejects
  \/ JsonResolves

Spec == Init /\ [][Next]_vars

(***************************************************************************)
(* The level ladders on their own, over every score                        *)
(***************************************************************************)
LadderRaw ==
  /\ \E s \in 0..MaxScore :
       probe' = [scorer |-> "raw", score |-> s, level |-> QualityLevel(s)]
  /\ UNCHANGED <<pc, request, locationData, fallbackOutcome, fallbackData,
                 calls, response, resolved, client>>

LadderEnhanced ==
  /\ \E s \in 0..MaxScore :
       probe' = [scorer |-> "enhanced", score |-> s,
                 level |-> EnhancedQualityLevel(s)]
  /\ UNCHANGED <<pc, request, locationData, fallbackOutcome, fallbackData,
                 calls, response, resolved, client>>

LadderNext == LadderRaw \/ LadderEnhanced

LadderSpec == Init /\ [][LadderNext]_vars

(***************************************************************************)
(* The extractor on its own, over the texts of the two address headers     *)
(***************************************************************************)
\* longest text of the forwarded-for header
MaxIpLen == 3

IpAlphabet == {" ", ",", "7", ":"}

IpTexts == UNION {[1..k -> IpAlphabet] : k \in 0..MaxIpLen}

AddressHeaders ==
  {Present(("CF-Connecting-IP" :> cip) @@ ("X-Forwarded-For" :> xff)) :
     cip \in {Absent, <<>>, <<"7">>, <<":", "7">>},
     xff \in {Absent} \cup IpTexts}

ExtractAlone ==
  /\ \E headers \in AddressHeaders, now \in Instants :
       LET ld == extractLocationData(headers, now)
       IN  resolved' = [headers |-> headers, ip |-> ld.ip, ipType |-> ld.ipType]
  /\ UNCHANGED <<pc, request, locationData, fallbackOutcome, fallbackData,
                 calls, response, probe, client>>

ExtractSpec == Init /\ [][ExtractAlone]_vars

(***************************************************************************)
(* The example client (examples/client.js): getLocation and its cache in   *)
(* localStorage.  One call of getLocation is in progress at a time.        *)
(***************************************************************************)
\* the cacheTTL option the client is constructed with, in clock ticks
CacheTTL == 2

\* last instant of the clock
MaxClock == 4

\* the records a /location response body parses to
Locations == {Obj([ip |-> Str(<<"7">>)]), Obj([ip |-> Str(<<"8">>), city |-> Null])}

\* JSON.parse(JSON.stringify(value))
JsonRoundTrip(value) ==
  CASE value.t = "object" -> Obj(Stringify(value.o))
    [] value.t = "NaN" -> Null
    [] OTHER -> value

\* the entry read as fresh at the very instant it expires
IsStaleAtTTL(entry, now) == now - entry.timestamp >= CacheTTL

\* now - data.timestamp > this.cacheTTL
IsStale(entry, now) == now - entry.timestamp > CacheTTL

\* the value getCachedLocation returns
getCachedLocation(c) ==
  IF ~c.hasStorage THEN Null
  ELSE IF ~c.storage.present THEN Null
  ELSE IF IsStale(c.storage, c.now) THEN Null
  ELSE c.storage.location

\* localStorage after getCachedLocation: an expired entry is removed
StorageAfterLookup(c) ==
  IF c.hasStorage /\ c.storage.present /\ IsStale(c.storage, c.now)
  THEN NoEntry
  ELSE c.storage

\* localStorage after setCachedLocation(location); setItem may throw, which
\* is ignored
setCachedLocation(c, location, full) ==
  IF ~c.hasStorage \/ full THEN c.storage
  ELSE [present |-> TRUE, location |-> JsonRoundTrip(location),
        timestamp |-> c.now]

\* getLocation(options) up to its return from the cache or to its fetch
GetLocation ==
  /\ client.stage = "idle"
  /\ \E fresh \in BOOLEAN :
       LET lookup == client.cache /\ ~fresh
           cached == IF lookup THEN getCachedLocation(client) ELSE Null
           kept == IF lookup THEN StorageAfterLookup(client) ELSE client.storage
           hit == lookup /\ Truthy(cached)
       IN  client' =
             [client EXCEPT
                !.storage = kept,
                !.stage = IF hit THEN "idle" ELSE "requesting",
                !.call = [fresh |-> fresh, entry |-> client.storage,
                          at |-> client.now, kept |-> kept,
                          requested |-> ~hit,
                          outcome |-> IF hit THEN "cached" ELSE "none",
                          returned |-> IF hit THEN cached ELSE Undef,
                          wrote |-> FALSE]]
  /\ UNCHANGED <<pc, request, locationData, fallbackOutcome, fallbackData,
                 calls, response, probe, resolved>>

\* the call ends by throwing
Throw(outcome) ==
  /\ client' = [client EXCEPT !.stage = "idle", !.call.outcome = outcome]
  /\ UNCHANGED <<pc, request, locationData, fallbackOutcome, fallbackData,
                 calls, response, probe, resolved>>

\* await fetch(...) rejects: a network error, or the abort of the timeout
ClientFetchFails ==
  /\ client.stage = "requesting"
  /\ \E outcome \in {"networkError", "timeout"} : Throw(outcome)

\* the response is not ok: throw new Error(`HTTP ...`)
ClientResponseNotOk ==
  /\ client.stage = "requesting"
  /\ Throw("httpError")

\* the response is ok: the timeout is cleared and the body is read
ClientResponseOk ==
  /\ client.stage = "requesting"
  /\ client' = [client EXCEPT !.stage = "reading"]
  /\ UNCHANGED <<pc, request, locationData, fallbackOutcome, fallbackData,
                 calls, response, probe, resolved>>

\* await response.json() rejects
ClientBodyUnparseable ==
  /\ client.stage = "reading"
  /\ Throw("parseError")

\* await response.json() resolves: the result is cached and returned
ClientBodyParsed ==
  /\ client.stage = "reading"
  /\ \E data \in Locations, full \in BOOLEAN :
       LET stored == IF client.cache THEN setCachedLocation(client, data, full)
                     ELSE client.storage
       IN  client' =
             [client EXCEPT
                !.storage = stored,
                !.stage = "idle",
                !.call.outcome = "ok",
                !.call.returned = data,
                !.call.wrote = (stored # client.storage)]
  /\ UNCHANGED <<pc, request, locationData, fallbackOutcome, fallbackData,
                 calls, response, probe, resolved>>

\* clearCache()
ClearCache ==
  /\ client' = [client EXCEPT
                  !.storage = IF client.hasStorage THEN NoEntry ELSE client.storage]
  /\ client' # client
  /\ UNCHANGED <<pc, request, locationData, fallbackOutcome, fallbackData,
                 calls, response, probe, resolved>>

\* Date.now() moves on
Tick ==
  /\ client.now < MaxClock
  /\ client' = [client EXCEPT !.now = client.now + 1]
  /\ UNCHANGED <<pc, request, locationData, fallbackOutcome, fallbackData,
                 calls, response, probe, resolved>>

ClientInit ==
  /\ pc = "idle"
  /\ request = NoRequest
  /\ locationData = NoRecord
  /\ fallbackOutcome = "none"
  /\ fallbackData = Undef
  /\ calls = 0
  /\ response = NoResponse
  /\ probe = NoProbe
  /\ resolved = NoResolved
  /\ client \in {NewClient(TRUE), NewClient(FALSE)}

ClientNext ==
  \/ GetLocation
  \/ ClientFetchFails
  \/ ClientResponseNotOk
  \/ ClientResponseOk
  \/ ClientBodyUnparseable
  \/ ClientBodyParsed
  \/ ClearCache
  \/ Tick

ClientSpec == ClientInit /\ [][ClientNext]_vars

(***************************************************************************)
(* Properties                                                              *)
(***************************************************************************)
\* the record the extractor produced for the request in hand
Baseline == extractLocationData(request.headers, request.now)

\* the handler of /location-enhanced has returned
EnhancedDone ==
  /\ pc = "done"
  /\ request.path = "/location-enhanced"
  /\ request.method # "OPTIONS"

\* the fields the enhancement may fill, with their names in the body
MergeFields ==
  {"city", "region", "latitude", "longitude", "timezone", "postalCode"}

BodyKey(field) == IF field = "postalCode" THEN "postal" ELSE field

EnhancementKeys == {"fallback", "fallbackError"}

LowLevels == {"minimal", "limited"}

Merged == EnhancedDone /\ fallbackOutcome = "parsed" /\ fallbackData.t # "null"

\* C1: whatever the outbound call does (rejects, answers non-2xx, has a body
\* that does not parse, has a body that parses to any JSON value), the
\* response of /location-enhanced has status 200, never 500.
EnhancedAlways200 == EnhancedDone => response.status = 200

\* the body parsed to null, reading its city threw, and the status is 200
EnhancedAlways200Witness ==
  /\ EnhancedDone
  /\ fallbackOutcome = "parsed"
  /\ fallbackData = Null
  /\ response.status = 200

\* C2: when the escalation fails by a network error, a non-2xx response or
\* an unparseable body, the returned record has fallbackError holding the
\* message of the failure.
FailureYieldsFallbackError ==
  (EnhancedDone /\ fallbackOutcome \in {"rejected", "notOk", "unparseable"})
    => /\ "fallbackError" \in DOMAIN response.body.o
       /\ response.body.o["fallbackError"].t = "string"
       /\ Len(response.body.o["fallbackError"].s) > 0

\* C3: after a successful enhancement every mergeable field that was
\* non-null in the baseline record, a parsed 0 or NaN included, has the
\* value it had in the baseline.
BaselineFieldsKept ==
  Merged =>
    \A k \in MergeFields :
      Baseline[k].t # "null" => locationData[k] = Baseline[k]

\* C4: on /location-enhanced the outbound call is issued iff the baseline
\* level is minimal or limited, also for ip "unknown"; at fair, good or
\* excellent there is no call and the response has no fallback,
\* fallbackError, dataQuality.enhanced or dataQuality.enhancedScore key.
EscalationIffLowLevel ==
  (request.path = "/location-enhanced" /\ request.method # "OPTIONS") =>
    /\ calls = 1 <=> Baseline.dataQuality.o.level \in LowLevels
    /\ calls = 0 <=> Baseline.dataQuality.o.level \in {"fair", "good", "excellent"}
    /\ (pc = "done" /\ Baseline.dataQuality.o.level \notin LowLevels) =>
         /\ DOMAIN response.body.o \cap EnhancementKeys = {}
         /\ DOMAIN response.body.o["dataQuality"].o \cap
              {"enhanced", "enhancedScore"} = {}

\* the call was issued for a record of level limited whose ip is "unknown"
EscalationIffLowLevelWitness ==
  /\ EnhancedDone
  /\ calls = 1
  /\ locationData["ip"] = Str(unknown)
  /\ Baseline.dataQuality.o.level = "limited"

\* a field of the returned record holds a value
HoldsValue(body, field) ==
  field \in DOMAIN body /\ body[field].t \notin {"null", "undefined"}

\* C5: after a successful enhancement a baseline-unset field whose fallback
\* value is absent stays unset, and enhancedScore.availableFields is the
\* number of the 7 designated fields that hold a value in the merged record.
EnhancedCountsMergedFields ==
  Merged =>
    /\ \A k \in MergeFields :
         (Baseline[k].t = "null" /\
            GetProp(fallbackData, BodyKey(k)).t = "undefined")
           => ~HoldsValue(response.body.o, k)
    /\ response.body.o["dataQuality"].o["enhancedScore"].availableFields =
         Cardinality({f \in mainFields : HoldsValue(response.body.o, f)})

\* the handler of / or /location has returned
LocationDone ==
  /\ pc = "done"
  /\ request.path \in {"/", "/location"}
  /\ request.method # "OPTIONS"

\* C6: for every header set the baseline availableFields is the number of
\* the attributes country, region, city, latitude, longitude, timezone,
\* postalCode set in the record extracted from the same headers: the raw
\* scorer and the enhanced scorer applied to that record agree.
RawScorerMatchesRecord ==
  LocationDone =>
    /\ locationData["dataQuality"].o.availableFields =
         Cardinality({f \in mainFields : locationData[f].t # "null"})
    /\ locationData["dataQuality"].o = calculateEnhancedDataQuality(locationData)

\* the assessments held by the record in hand
Assessments ==
  IF "dataQuality" \notin DOMAIN locationData THEN {}
  ELSE LET dq == locationData["dataQuality"].o
       IN  {[score |-> dq.score, level |-> dq.level,
             availableFields |-> dq.availableFields,
             totalFields |-> dq.totalFields]}
           \cup (IF "enhancedScore" \in DOMAIN dq THEN {dq.enhancedScore} ELSE {})

Distance(a, b) == IF a >= b THEN a - b ELSE b - a

\* C7: every assessment of either scorer has totalFields = 7,
\* 0 <= availableFields <= 7, 0 <= score <= 100 and score the integer
\* nearest to 100 * availableFields / totalFields.
AssessmentsWellFormed ==
  \A a \in Assessments :
    /\ a.totalFields = 7
    /\ a.availableFields \in 0..7
    /\ a.score \in 0..100
    /\ 2 * Distance(a.totalFields * a.score, 100 * a.availableFields)
         <= a.totalFields

\* a record with a baseline assessment of 2 fields (score 29) and an
\* enhanced one of 6 fields (score 86)
AssessmentsWellFormedWitness ==
  /\ Merged
  /\ locationData["dataQuality"].o.score = 29
  /\ locationData["dataQuality"].o["enhancedScore"].score = 86

\* C8: in both scorers the level is given by the score alone: >= 80
\* excellent, >= 60 good, >= 40 fair, >= 20 limited, otherwise minimal; every
\* score of 0..100 gets one of these and none gets unknown.
LevelFollowsLadder ==
  probe.scorer # "none" =>
    /\ probe.level = "excellent" <=> probe.score >= 80
    /\ probe.level = "good" <=> (probe.score >= 60 /\ probe.score < 80)
    /\ probe.level = "fair" <=> (probe.score >= 40 /\ probe.score < 60)
    /\ probe.level = "limited" <=> (probe.score >= 20 /\ probe.score < 40)
    /\ probe.level = "minimal" <=> probe.score < 20
    /\ probe.level # "unknown"

\* the raw scorer's ladder put a score below every threshold at minimal
LevelFollowsLadderWitness ==
  /\ probe.scorer = "raw"
  /\ probe.score = 19
  /\ probe.level = "minimal"

Rank(level) ==
  CASE level = "minimal" -> 1 [] level = "limited" -> 2 [] level = "fair" -> 3
    [] level = "good" -> 4 [] level = "excellent" -> 5 [] OTHER -> 0

LadderOf(scorer, s) ==
  IF scorer = "raw" THEN QualityLevel(s) ELSE EnhancedQualityLevel(s)

\* no lower score has a higher tier than the score in hand
ProbeMonotonic ==
  \A s \in 0..probe.score :
    Rank(LadderOf(probe.scorer, s)) <= Rank(probe.level)

\* C9 as written: score 79 is fair, score 80 is excellent, score 0 is
\* minimal, and the mapping is monotonic.
LadderExamplesAsWritten ==
  probe.scorer # "none" =>
    /\ probe.score = 79 => probe.level = "fair"
    /\ probe.score = 80 => probe.level = "excellent"
    /\ probe.score = 0 => probe.level = "minimal"
    /\ ProbeMonotonic

\* C9: score 79 is good, score 80 is excellent, score 0 is minimal, and a
\* higher score never has a lower tier in the order minimal < limited <
\* fair < good < excellent.
LadderExamples ==
  probe.scorer # "none" =>
    /\ probe.score = 79 => probe.level = "good"
    /\ probe.score = 80 => probe.level = "excellent"
    /\ probe.score = 0 => probe.level = "minimal"
    /\ ProbeMonotonic

\* the raw scorer's ladder was given 79
LadderExamplesWitness ==
  /\ probe.scorer = "raw"
  /\ probe.score = 79
  /\ probe.level = "good"

\* the escalation was attempted and did not succeed
EnhancementFailed ==
  /\ EnhancedDone
  /\ \/ fallbackOutcome \in {"rejected", "notOk", "unparseable"}
     \/ fallbackOutcome = "parsed" /\ fallbackData.t = "null"

\* C10: after a failed attempt the returned record has every field of the
\* baseline record with its baseline value, dataQuality included, and no
\* key besides possibly fallbackError: no fallback, no dataQuality.enhanced,
\* no dataQuality.enhancedScore, whichever step failed.
FailureLeavesBaseline ==
  EnhancementFailed =>
    /\ DOMAIN locationData \ DOMAIN Baseline \subseteq {"fallbackError"}
    /\ \A k \in DOMAIN Baseline :
         k \in DOMAIN locationData /\ locationData[k] = Baseline[k]
    /\ DOMAIN response.body.o \ DOMAIN Stringify(Baseline) \subseteq {"fallbackError"}
    /\ \A k \in DOMAIN Stringify(Baseline) :
         k \in DOMAIN response.body.o /\ response.body.o[k] = Stringify(Baseline)[k]

\* the body parsed to null for a request whose latitude header reads 0
FailureLeavesBaselineWitness ==
  /\ EnhancementFailed
  /\ fallbackOutcome = "parsed"
  /\ "fallbackError" \in DOMAIN response.body.o
  /\ Baseline["latitude"] = Num(0)

\* the outbound call was attempted and did not give a parsed body
AttemptFailed == fallbackOutcome \in {"rejected", "notOk", "unparseable"}

\* C11: one request issues at most one outbound call, with no retry after a
\* failure; /, /location, /health, unknown paths and OPTIONS issue none, and
\* the response of / and /location is a function of the request alone.
SingleOutboundCall ==
  /\ calls <= 1
  /\ AttemptFailed => (pc = "done" /\ calls = 1)
  /\ (request.method = "OPTIONS" \/ request.path # "/location-enhanced") =>
       (calls = 0 /\ fallbackOutcome = "none" /\ fallbackData = Undef)
  /\ LocationDone =>
       response = handleLocationRequest(request.headers, request.now)

\* the one call was rejected and the handler returned without another
SingleOutboundCallWitness ==
  /\ EnhancedDone
  /\ fallbackOutcome = "rejected"
  /\ calls = 1

KnownPaths == {"/", "/location", "/location-enhanced", "/health"}

\* a request that is not OPTIONS, to a path no route matches, was answered
UnknownPathDone ==
  /\ pc = "done"
  /\ request.method # "OPTIONS"
  /\ request.path \notin KnownPaths

OptionsDone == pc = "done" /\ request.method = "OPTIONS"

\* C12 as written: a non-OPTIONS request to an unknown path gets status 404
\* with an empty body, an OPTIONS request to any path gets 200 with no body.
UnknownPathEmpty404 ==
  /\ UnknownPathDone =>
       /\ response.status = 404
       /\ \/ response.body.t = "null"
          \/ response.body.t = "string" /\ Len(response.body.s) = 0
  /\ OptionsDone => (response.status = 200 /\ response.body.t = "null")

\* C12: a non-OPTIONS request to an unknown path gets status 404 with the
\* text body "Not Found", an OPTIONS request to any path gets status 200
\* with no body.
UnknownPathNotFound404 ==
  /\ UnknownPathDone =>
       /\ response.status = 404
       /\ response.body.t = "string"
       /\ response.body.s =
            <<"N", "o", "t", " ", "F", "o", "u", "n", "d">>
  /\ OptionsDone => (response.status = 200 /\ response.body.t = "null")

\* a POST to a path no route matches was answered with 404
UnknownPathNotFound404Witness ==
  /\ UnknownPathDone
  /\ request.method = "POST"
  /\ response.status = 404

\* the number of characters of x before its first comma
FirstEntryLen(x) ==
  CHOOSE n \in 0..Len(x) :
    /\ \A i \in 1..n : x[i] # ","
    /\ n = Len(x) \/ x[n + 1] = ","

\* t is e without the blanks at its two ends
IsTrimOf(t, e) ==
  \E a, b \in 0..Len(e) :
    /\ a + b <= Len(e)
    /\ \A i \in 1..a : e[i] = " "
    /\ \A i \in (Len(e) - b + 1)..Len(e) : e[i] = " "
    /\ Len(t) = Len(e) - a - b
    /\ \A i \in 1..Len(t) : t[i] = e[a + i]
    /\ Len(t) > 0 => (t[1] # " " /\ t[Len(t)] # " ")

\* C13: ip is the connecting-IP header when present and non-empty, else the
\* trimmed first comma-separated entry of the forwarded-for header when
\* that entry is non-empty, else "unknown"; ipType is IPv6 exactly when ip
\* contains ':'.
IpResolutionOrder ==
  Len(resolved.ipType.s) > 0 =>
    LET h == resolved.headers
        ip == resolved.ip.s
        direct == "CF-Connecting-IP" \in DOMAIN h /\ Len(h["CF-Connecting-IP"]) > 0
        forwarded == "X-Forwarded-For" \in DOMAIN h
        entry == SubSeq(h["X-Forwarded-For"], 1, FirstEntryLen(h["X-Forwarded-For"]))
    IN  /\ direct => ip = h["CF-Connecting-IP"]
        /\ (~direct /\ forwarded /\ ~IsTrimOf(<<>>, entry)) => IsTrimOf(ip, entry)
        /\ (~direct /\ forwarded /\ IsTrimOf(<<>>, entry)) => ip = unknown
        /\ (~direct /\ ~forwarded) => ip = unknown
        /\ resolved.ipType.s = <<"I", "P", "v", "6">>
             <=> \E i \in 1..Len(ip) : ip[i] = ":"
        /\ resolved.ipType.s # <<"I", "P", "v", "6">>
             => resolved.ipType.s = <<"I", "P", "v", "4">>

\* an empty connecting-IP header and a forwarded-for entry " : " give the
\* ip ":" of type IPv6
IpResolutionOrderWitness ==
  /\ resolved.headers = ("CF-Connecting-IP" :> <<>>) @@
                        ("X-Forwarded-For" :> <<" ", ":", " ">>)
  /\ resolved.ip = Str(<<":">>)
  /\ resolved.ipType = Str(<<"I", "P", "v", "6">>)

HasCorsHeaders(headers) ==
  /\ {"Access-Control-Allow-Origin", "Access-Control-Allow-Methods",
      "Access-Control-Allow-Headers", "Access-Control-Max-Age"}
       \subseteq DOMAIN headers
  /\ headers["Access-Control-Allow-Origin"] = "*"
  /\ headers["Access-Control-Allow-Methods"] = "GET, POST, OPTIONS"
  /\ headers["Access-Control-Allow-Headers"] = "Content-Type, Authorization"
  /\ headers["Access-Control-Max-Age"] = "86400"

\* C14: every response of the worker, on any route and with any status (200
\* record, 200 health, 200 preflight, 404, 500), carries the four CORS
\* headers with their fixed values.
EveryResponseHasCors ==
  pc = "done" =>
    /\ HasCorsHeaders(response.headers)
    /\ \A message \in NetworkErrors \cup ParseErrors :
         /\ HasCorsHeaders(LocationErrorResponse(message).headers)
         /\ HasCorsHeaders(
              EnhancedResponse([escaped |-> TRUE, ld |-> locationData,
                                message |-> message]).headers)

\* the health check was answered with the CORS headers
EveryResponseHasCorsWitness ==
  /\ pc = "done"
  /\ request.path = "/health"
  /\ request.method = "GET"
  /\ response.status = 200
  /\ HasCorsHeaders(response.headers)

\* C15: in a /location-enhanced response fallback, dataQuality.enhanced
\* (= true) and dataQuality.enhancedScore are all present or all absent, and
\* fallback and fallbackError are never both present; a / or /location
\* response has none of the four.
EnhancementKeysTogether ==
  /\ EnhancedDone =>
       LET body == response.body.o
           dq == body["dataQuality"].o
       IN  /\ "fallback" \in DOMAIN body <=> "enhanced" \in DOMAIN dq
           /\ "fallback" \in DOMAIN body <=> "enhancedScore" \in DOMAIN dq
           /\ "enhanced" \in DOMAIN dq => dq["enhanced"] = TRUE
           /\ ~("fallback" \in DOMAIN body /\ "fallbackError" \in DOMAIN body)
  /\ LocationDone =>
       /\ DOMAIN response.body.o \cap EnhancementKeys = {}
       /\ DOMAIN response.body.o["dataQuality"].o \cap
            {"enhanced", "enhancedScore"} = {}

\* a merged response carries the three keys and no fallbackError
EnhancementKeysTogetherWitness ==
  /\ EnhancedDone
  /\ "fallback" \in DOMAIN response.body.o
  /\ "enhancedScore" \in DOMAIN response.body.o["dataQuality"].o
  /\ response.body.o["dataQuality"].o["enhanced"] = TRUE
  /\ "fallbackError" \notin DOMAIN response.body.o

\* C16: after a successful enhancement enhancedScore.availableFields >=
\* dataQuality.availableFields and enhancedScore.score >= dataQuality.score,
\* for every header set and every body.
EnhancedNotLower ==
  Merged =>
    LET dq == response.body.o["dataQuality"].o
    IN  /\ dq["enhancedScore"].availableFields >= dq["availableFields"]
        /\ dq["enhancedScore"].score >= dq["score"]

\* a call of getLocation was made
CallMade == client.call.outcome # "none" \/ client.stage # "idle"

\* the call found a cache entry of age at most cacheTTL
FoundFresh ==
  /\ client.call.entry.present
  /\ client.call.at - client.call.entry.timestamp <= CacheTTL

\* C17: with caching enabled, a getLocation call without fresh returns the
\* stored location and issues no request exactly when an entry of age at
\* most cacheTTL exists; an older entry is removed and a request is issued;
\* a call with fresh: true always issues a request; the cache is written
\* only by a call whose response was ok and whose body parsed.
ClientCacheRule ==
  CallMade =>
    LET c == client.call
    IN  /\ ~c.fresh => (FoundFresh <=> ~c.requested)
        /\ (~c.fresh /\ FoundFresh) =>
             (c.outcome = "cached" /\ c.returned = c.entry.location)
        /\ (~c.fresh /\ c.entry.present /\ ~FoundFresh) =>
             (~c.kept.present /\ c.requested)
        /\ c.fresh => c.requested
        /\ c.wrote => (c.outcome = "ok" /\ c.requested)
        /\ c.outcome \in {"networkError", "timeout", "httpError", "parseError"}
             => (~c.wrote /\ c.returned = Undef
                 /\ (client.storage.present => client.storage = c.kept))
        /\ c.outcome = "cached" => ~c.requested

\* an entry written at instant 0 was returned at the instant it reaches the
\* age cacheTTL, without a request
ClientCacheRuleWitness ==
  /\ client.call.outcome = "cached"
  /\ client.call.entry.present
  /\ client.call.at - client.call.entry.timestamp = CacheTTL
  /\ client.call.returned = client.call.entry.location
  /\ ~client.call.requested

====
